---- MODULE Spec2Model ----
(***************************************************************************)
(* One call of LVISInferenceMapperWithGT.__call__                          *)
(* (src/datasets/dataset_mappers/lvis_dataset_mapper_with_gt.py:154-226).  *)
(*                                                                         *)
(* The caller's record and the two lists it refers to are objects on a     *)
(* heap, so that copying and aliasing are visible.  Arrays are records     *)
(* [h, w, px] with px a function from <<row, col>> to a byte.  The file    *)
(* behind file_name, the augmentation sampling and the record are the      *)
(* inputs: the record is drawn in Init, the file and the sampled           *)
(* transform at the step that reads them.                                  *)
(***************************************************************************)
EXTENDS Integers, Sequences, FiniteSets, TLC

VARIABLES heap, orig, dataset_dict, pc, err, image, transforms, augRuns,
          idx, handed, masks, classes, instances, ret

vars == <<heap, orig, dataset_dict, pc, err, image, transforms, augRuns,
          idx, handed, masks, classes, instances, ret>>

(* ---------------------------------------------------------------- bounds *)
ImgH == 2
ImgW == 2
MaxInst == 2
MaxParts == 2

(* np.uint8 has 2^8 values: astype(np.uint8) reduces modulo this. *)
Uint8Mod == 256

(* ------------------------------------------------------------ the inputs *)
Pixels(h, w) == (0 .. h - 1) \X (0 .. w - 1)

(* The foreground of one polygon or run-length structure: nothing, or two  *)
(* pixels on the anti-diagonal.                                            *)
Zero == {}
PartA == {<<0, 1>>, <<1, 0>>}
PartSet == {Zero, PartA}

(* The labels list of a record is a prefix of 5, 7, 9, ... *)
LabelAt(i) == 3 + 2 * i
LabelLists == {[i \in 1 .. k |-> LabelAt(i)] : k \in 0 .. MaxInst}

SeqsUpTo(S, n) == UNION {[1 .. k -> S] : k \in 0 .. n}

(* An annotation payload: polygons (one part per polygon), one             *)
(* run-length-encoded structure, or something the codec cannot read.       *)
PolyPayloads == {[kind |-> "poly", parts |-> ps] : ps \in SeqsUpTo(PartSet, MaxParts) \ {<<>>}}
RlePayloads == {[kind |-> "rle", parts |-> <<PartA>>]}
BadPayloads == {[kind |-> "bad", parts |-> <<>>]}
Payloads == PolyPayloads \cup RlePayloads \cup BadPayloads

(* The caller's argument and the lists it holds. *)
ArgRef == 1
ArgInstRef == 2
ArgLabelsRef == 3

BaseKeys == {"file_name", "instance", "labels"}
DimKeys == {"height", "width"}
InputKeySets == {BaseKeys \cup DimKeys, BaseKeys \cup {"annotations"}}

InputDict(keys) ==
    [k \in keys |->
        CASE k = "file_name" -> "img.jpg"
          [] k = "height" -> ImgH
          [] k = "width" -> ImgW
          [] k = "instance" -> ArgInstRef
          [] k = "labels" -> ArgLabelsRef
          [] OTHER -> "raw"]

(* ------------------------------------------------------------ dictionaries *)
Put(d, k, v) == [x \in (DOMAIN d) \cup {k} |-> IF x = k THEN v ELSE d[x]]

Remove(d, ks) == [x \in (DOMAIN d) \ ks |-> d[x]]

(* ------------------------------------------------------------- deepcopy *)
CopyRef == 4
CopyInstRef == 5
CopyLabelsRef == 6

(* A mapper that works on the caller's own object. *)
alias(h, r) == [heap |-> h, ref |-> r]

(* copy.deepcopy(dataset_dict): a new dict and new lists, equal in value. *)
deepcopy(h, r) ==
    [heap |-> (CopyRef :> Put(Put(h[r], "instance", CopyInstRef), "labels", CopyLabelsRef))
              @@ (CopyInstRef :> h[h[r]["instance"]])
              @@ (CopyLabelsRef :> h[h[r]["labels"]])
              @@ h,
     ref |-> CopyRef]

(* The objects reachable from a record. *)
Reach(h, r) == {r, h[r]["instance"], h[r]["labels"]}

(* ------------------------------------------------------------ the file *)
Channels == 3

(* What utils.read_image can give for file_name: nothing, an image of the  *)
(* declared size, or an image one column wider.                            *)
FileImages == {[h |-> ImgH, w |-> ImgW, c |-> Channels],
               [h |-> ImgH, w |-> ImgW + 1, c |-> Channels]}

(* utils.check_image_size: the comparison it makes when a size is declared. *)
SizeMatches(d, img) ==
    ("width" \in DOMAIN d \/ "height" \in DOMAIN d)
        => (<<img.w, img.h>> = <<d["width"], d["height"]>>)

(* ... and the sizes it writes into the record when none is declared. *)
WithSize(d, img) ==
    LET d1 == IF "width" \in DOMAIN d THEN d ELSE Put(d, "width", img.w)
    IN IF "height" \in DOMAIN d1 THEN d1 ELSE Put(d1, "height", img.h)

(* ------------------------------------------------------ the augmentations *)
(* The transforms self.augmentations can return for an image of width w:   *)
(* none, a horizontal flip, or a crop to the w - 1 columns from x0 = 1.    *)
Handles(w) == {[kind |-> "noop", x0 |-> 0, w |-> w],
               [kind |-> "hflip", x0 |-> 0, w |-> w],
               [kind |-> "crop", x0 |-> 1, w |-> w]}

apply_image(t, img) ==
    IF t.kind = "crop" THEN [img EXCEPT !.w = t.w - 1] ELSE img

(* A transform other than the one sampled for the image. *)
apply_other(t, m) ==
    IF t.kind = "crop"
    THEN m
    ELSE [h |-> m.h, w |-> m.w - 1,
          px |-> [p \in Pixels(m.h, m.w - 1) |-> m.px[<<p[1], p[2]>>]]]

(* transforms.apply_segmentation(m[:, :, None])[:, :, 0] *)
apply_segmentation(t, m) ==
    CASE t.kind = "noop" -> m
      [] t.kind = "hflip" ->
            [h |-> m.h, w |-> m.w,
             px |-> [p \in Pixels(m.h, m.w) |-> m.px[<<p[1], t.w - 1 - p[2]>>]]]
      [] t.kind = "crop" ->
            [h |-> m.h, w |-> t.w - 1,
             px |-> [p \in Pixels(m.h, t.w - 1) |-> m.px[<<p[1], p[2] + t.x0>>]]]

(* --------------------------------------------------------- the mask codec *)
(* mask.decode(mask.frPyObjects(inst, h, w)): polygons give one plane per  *)
(* polygon (an h x w x n array), a single run-length structure gives one   *)
(* h x w array without the third axis.                                     *)
Plane(s, h, w) == [p \in Pixels(h, w) |-> IF p \in s THEN 1 ELSE 0]

Decodable(inst) == inst.kind # "bad"

decode(inst, h, w) ==
    [ndim |-> IF inst.kind = "poly" THEN 3 ELSE 2,
     h |-> h, w |-> w,
     planes |-> [k \in 1 .. Len(inst.parts) |-> Plane(inst.parts[k], h, w)]]

RECURSIVE SumPlanes(_, _, _)
SumPlanes(planes, k, p) ==
    IF k = 0 THEN 0 ELSE planes[k][p] + SumPlanes(planes, k - 1, p)

(* np.sum(m, axis=2) exists only for an array with a third axis. *)
HasAxis2(m) == m.ndim >= 3

(* np.sum(m, axis=2).astype(np.uint8) *)
merge(m) ==
    [h |-> m.h, w |-> m.w,
     px |-> [p \in Pixels(m.h, m.w) |-> SumPlanes(m.planes, Len(m.planes), p) % Uint8Mod]]

(* ------------------------------------------------------ the instance batch *)
Min2(a, b) == IF a <= b THEN a ELSE b

(* zip(dataset_dict['instance'], dataset_dict['labels']) stops at the shorter. *)
ZipLen(a, b) == Min2(Len(a), Len(b))

AllZero(m) == \A p \in DOMAIN m.px : m.px[p] = 0

(* The assertion accepting an empty list. *)
AnyLength(s) == Len(s) >= 0

(* assert len(dataset_dict['instance']) > 0 *)
NonEmpty(s) == Len(s) > 0

(* Appending only masks that have a foreground. *)
AppendMaskIfAny(ms, m) == IF AllZero(m) THEN ms ELSE Append(ms, m)

(* masks.append(...) *)
AppendMask(ms, m) == Append(ms, m)

(* Taking the empty branch when no mask has a foreground. *)
NoForeground(ms) == \A i \in 1 .. Len(ms) : AllZero(ms[i])

(* len(masks) == 0 *)
NoMasks(ms) == Len(ms) = 0

ToBool(m) == [m EXCEPT !.px = [p \in DOMAIN m.px |-> IF m.px[p] # 0 THEN 1 ELSE 0]]

RECURSIVE DropEmptyRows(_)
DropEmptyRows(ms) ==
    IF ms = <<>> THEN <<>>
    ELSE IF AllZero(Head(ms)) THEN DropEmptyRows(Tail(ms))
    ELSE <<ToBool(Head(ms)).px>> \o DropEmptyRows(Tail(ms))

(* Stacking that leaves out rows without a foreground. *)
stackNonEmpty(ms) == DropEmptyRows(ms)

(* BitMasks(torch.stack([...])).tensor: one boolean row per mask. *)
stack(ms) == [i \in 1 .. Len(ms) |-> ToBool(ms[i]).px]

SetMin(S) == CHOOSE x \in S : \A y \in S : x <= y
SetMax(S) == CHOOSE x \in S : \A y \in S : x >= y

(* The extent without the closing +1. *)
InclusiveBox(row, h, w) ==
    LET xs == {c \in 0 .. w - 1 : \E r \in 0 .. h - 1 : row[<<r, c>>] # 0}
        ys == {r \in 0 .. h - 1 : \E c \in 0 .. w - 1 : row[<<r, c>>] # 0}
    IN IF xs # {} /\ ys # {}
       THEN <<SetMin(xs), SetMin(ys), SetMax(xs), SetMax(ys)>>
       ELSE <<0, 0, 0, 0>>

(* BitMasks.get_bounding_boxes for one row. *)
BoundingBox(row, h, w) ==
    LET xs == {c \in 0 .. w - 1 : \E r \in 0 .. h - 1 : row[<<r, c>>] # 0}
        ys == {r \in 0 .. h - 1 : \E c \in 0 .. w - 1 : row[<<r, c>>] # 0}
    IN IF xs # {} /\ ys # {}
       THEN <<SetMin(xs), SetMin(ys), SetMax(xs) + 1, SetMax(ys) + 1>>
       ELSE <<0, 0, 0, 0>>

(* A result without the raw annotation fields. *)
OutputStripped(d) == Remove(d, {"instance", "labels", "annotations"})

(* return dataset_dict *)
Output(d) == d

Init ==
    /\ \E keys \in InputKeySets, insts \in SeqsUpTo(Payloads, MaxInst),
          labs \in LabelLists :
          heap = (ArgRef :> InputDict(keys)) @@ (ArgInstRef :> insts) @@ (ArgLabelsRef :> labs)
    /\ orig = heap
    /\ dataset_dict = ArgRef
    /\ pc = "copy"
    /\ err = "none"
    /\ image = <<>>
    /\ transforms = <<>>
    /\ augRuns = 0
    /\ idx = 0
    /\ handed = <<>>
    /\ masks = <<>>
    /\ classes = <<>>
    /\ instances = <<>>
    /\ ret = 0

(* Line 162. *)
Copy ==
    /\ pc = "copy"
    /\ LET c == deepcopy(heap, ArgRef) IN
          /\ heap' = c.heap
          /\ dataset_dict' = c.ref
    /\ pc' = "read"
    /\ UNCHANGED <<orig, err, image, transforms, augRuns, idx, handed, masks,
                   classes, instances, ret>>

(* Line 164. *)
ReadImage ==
    /\ pc = "read"
    /\ \/ /\ \E img \in FileImages : image' = img
          /\ pc' = "check"
          /\ err' = err
       \/ /\ pc' = "done"
          /\ err' = "IOError"
          /\ image' = image
    /\ UNCHANGED <<heap, orig, dataset_dict, transforms, augRuns, idx, handed,
                   masks, classes, instances, ret>>

(* Line 165. *)
CheckImageSize ==
    /\ pc = "check"
    /\ IF SizeMatches(heap[dataset_dict], image)
       THEN /\ heap' = [heap EXCEPT ![dataset_dict] = WithSize(@, image)]
            /\ pc' = "augment"
            /\ err' = err
       ELSE /\ pc' = "done"
            /\ err' = "SizeMismatchError"
            /\ heap' = heap
    /\ UNCHANGED <<orig, dataset_dict, image, transforms, augRuns, idx, handed,
                   masks, classes, instances, ret>>

(* Lines 167-176: the pipeline runs on the image, which is then stored     *)
(* channel-first in the record.                                            *)
Augment ==
    /\ pc = "augment"
    /\ \E t \in Handles(image.w) :
          /\ transforms' = t
          /\ image' = apply_image(t, image)
    /\ augRuns' = augRuns + 1
    /\ heap' = [heap EXCEPT ![dataset_dict] =
                   Put(@, "image", [shape |-> <<image'.c, image'.h, image'.w>>])]
    /\ pc' = "assert"
    /\ UNCHANGED <<orig, dataset_dict, err, idx, handed, masks, classes,
                   instances, ret>>

(* Lines 178-180. *)
AssertNonEmpty ==
    /\ pc = "assert"
    /\ IF NonEmpty(heap[heap[dataset_dict]["instance"]])
       THEN /\ pc' = "loop"
            /\ err' = err
       ELSE /\ pc' = "done"
            /\ err' = "AssertionError"
    /\ masks' = <<>>
    /\ classes' = <<>>
    /\ idx' = 0
    /\ UNCHANGED <<heap, orig, dataset_dict, image, transforms, augRuns, handed,
                   instances, ret>>

(* Lines 181-188, one iteration. *)
LoopBody ==
    /\ pc = "loop"
    /\ LET d == heap[dataset_dict]
           insts == heap[d["instance"]]
           labs == heap[d["labels"]]
       IN /\ idx < ZipLen(insts, labs)
          /\ LET inst == insts[idx + 1]
                 label == labs[idx + 1]
             IN IF ~Decodable(inst)
                THEN /\ pc' = "done"
                     /\ err' = "DecodeError"
                     /\ UNCHANGED <<idx, handed, masks, classes>>
                ELSE LET m == decode(inst, d["height"], d["width"])
                     IN IF ~HasAxis2(m)
                        THEN /\ pc' = "done"
                             /\ err' = "AxisError"
                             /\ UNCHANGED <<idx, handed, masks, classes>>
                        ELSE /\ handed' = Append(handed, merge(m))
                             /\ masks' = AppendMask(masks, apply_segmentation(transforms, merge(m)))
                             /\ classes' = Append(classes, label)
                             /\ idx' = idx + 1
                             /\ pc' = pc
                             /\ err' = err
    /\ UNCHANGED <<heap, orig, dataset_dict, image, transforms, augRuns,
                   instances, ret>>

(* Lines 190-203. *)
BuildInstances ==
    /\ pc = "loop"
    /\ LET d == heap[dataset_dict]
       IN idx = ZipLen(heap[d["instance"]], heap[d["labels"]])
    /\ LET rows == IF NoMasks(masks) THEN <<>> ELSE stack(masks)
           inst == [image_size |-> <<image.h, image.w>>,
                    gt_classes |-> classes,
                    gt_masks |-> [h |-> IF NoMasks(masks) THEN image.h ELSE masks[1].h,
                                  w |-> IF NoMasks(masks) THEN image.w ELSE masks[1].w,
                                  rows |-> rows],
                    gt_boxes |-> [i \in 1 .. Len(rows) |->
                                     BoundingBox(rows[i], masks[i].h, masks[i].w)]]
       IN /\ instances' = inst
          /\ heap' = [heap EXCEPT ![dataset_dict] = Put(@, "instances", inst)]
    /\ pc' = "return"
    /\ UNCHANGED <<orig, dataset_dict, err, image, transforms, augRuns, idx,
                   handed, masks, classes, ret>>

(* Line 226. *)
Return ==
    /\ pc = "return"
    /\ heap' = [heap EXCEPT ![dataset_dict] = Output(@)]
    /\ ret' = dataset_dict
    /\ pc' = "done"
    /\ UNCHANGED <<orig, dataset_dict, err, image, transforms, augRuns, idx,
                   handed, masks, classes, instances>>

Next ==
    \/ Copy
    \/ ReadImage
    \/ CheckImageSize
    \/ Augment
    \/ AssertNonEmpty
    \/ LoopBody
    \/ BuildInstances
    \/ Return

Spec == Init /\ [][Next]_vars

(* ------------------------------------------------------------ the claims *)
ArgInsts == orig[ArgInstRef]
ArgLabels == orig[ArgLabelsRef]
Returned == ret # 0
Out == heap[ret]["instances"]
OutRows == Out.gt_masks.rows

(* The pixels at which an array is nonzero. *)
Foreground(px) == {p \in DOMAIN px : px[p] # 0}

(* The pixels of an h x w image that a payload's parts cover a number of   *)
(* times that is not a multiple of 2^8.                                    *)
CoverCount(inst, p) == Cardinality({k \in 1 .. Len(inst.parts) : p \in inst.parts[k]})
PayloadForeground(inst, h, w) == {p \in Pixels(h, w) : CoverCount(inst, p) % Uint8Mod # 0}

(* Where a transform sends a set of pixels. *)
TransformedSet(t, S) ==
    CASE t.kind = "noop" -> S
      [] t.kind = "hflip" -> {<<p[1], t.w - 1 - p[2]>> : p \in S}
      [] t.kind = "crop" ->
            {<<p[1], p[2] - t.x0>> : p \in {q \in S : q[2] >= t.x0 /\ q[2] - t.x0 < t.w - 1}}

(* C1: whenever map returns, the mask tensor has as many rows as the class *)
(* tensor has entries, whatever the lengths of 'instance' and 'labels'.    *)
C1_RowsMatchClasses ==
    Returned => Len(OutRows) = Len(Out.gt_classes)

C1_Witness ==
    /\ Returned
    /\ Len(ArgInsts) # Len(ArgLabels)
    /\ Len(OutRows) > 0
    /\ \E i \in 1 .. Len(OutRows) : Foreground(OutRows[i]) = {}

(* C2 (as claimed): every array handed to the transform is binary, 1       *)
(* exactly at the pixels that at least one part covers.                    *)
C2_MergedIsBinaryUnion ==
    \A i \in 1 .. Len(handed) :
        \A p \in DOMAIN handed[i].px :
            handed[i].px[p] = IF \E k \in 1 .. Len(ArgInsts[i].parts) : p \in ArgInsts[i].parts[k]
                              THEN 1 ELSE 0

(* C3 (as claimed): the returned record has no 'instance', 'labels' or     *)
(* 'annotations' key, and has 'image' and 'instances'.                     *)
C3_RawFieldsRemoved ==
    Returned =>
        /\ DOMAIN heap[ret] \cap {"instance", "labels", "annotations"} = {}
        /\ {"image", "instances"} \subseteq DOMAIN heap[ret]

(* C3 (amended): the returned record keeps every key of the input with an  *)
(* equal value, 'instance', 'labels' and 'annotations' included, and has   *)
(* 'image' and 'instances' besides.                                        *)
C3_InputFieldsKept ==
    Returned =>
        /\ \A k \in DOMAIN orig[ArgRef] :
              /\ k \in DOMAIN heap[ret]
              /\ k \notin {"instance", "labels"} => heap[ret][k] = orig[ArgRef][k]
        /\ heap[heap[ret]["instance"]] = ArgInsts
        /\ heap[heap[ret]["labels"]] = ArgLabels
        /\ {"image", "instances"} \subseteq DOMAIN heap[ret]

C3_Witness ==
    /\ Returned
    /\ "annotations" \in DOMAIN orig[ArgRef]
    /\ "annotations" \in DOMAIN heap[ret]

(* C4: for a record with an empty 'instance' list nothing is returned and  *)
(* no 'instances' object is made; once the image is read and its size      *)
(* accepted, the call ends in the assertion error.                         *)
C4_EmptyInstanceFails ==
    Len(ArgInsts) = 0 =>
        /\ ret = 0
        /\ "instances" \notin DOMAIN heap[dataset_dict]
        /\ pc \notin {"loop", "return"}
        /\ (pc = "done" /\ err \notin {"IOError", "SizeMismatchError"}) => err = "AssertionError"

C4_Witness ==
    /\ Len(ArgInsts) = 0
    /\ pc = "done"
    /\ err = "AssertionError"

(* C5: in every output, the box of a row with a nonzero pixel is           *)
(* (min_col, min_row, max_col + 1, max_row + 1) over the nonzero pixels of *)
(* that output row: it contains every nonzero pixel and each of its four   *)
(* sides touches one.                                                      *)
C5_BoxesTight ==
    Returned =>
        /\ Len(Out.gt_boxes) = Len(OutRows)
        /\ \A i \in 1 .. Len(OutRows) :
              LET N == Foreground(OutRows[i])
                  b == Out.gt_boxes[i]
              IN N # {} =>
                    /\ \A p \in N : b[1] <= p[2] /\ p[2] < b[3] /\ b[2] <= p[1] /\ p[1] < b[4]
                    /\ \E p \in N : p[2] = b[1]
                    /\ \E p \in N : p[2] = b[3] - 1
                    /\ \E p \in N : p[1] = b[2]
                    /\ \E p \in N : p[1] = b[4] - 1

C5_Witness ==
    /\ Returned
    /\ transforms.kind = "crop"
    /\ \E i \in 1 .. Len(OutRows) :
          /\ Foreground(OutRows[i]) # {}
          /\ Foreground(OutRows[i]) # Foreground(handed[i].px)

(* C6: with len(instance) = len(labels) = n >= 1 the output has n mask     *)
(* rows, n classes and n boxes; the classes are the labels in order, row i *)
(* is the transformed foreground of instance i, and a row without          *)
(* foreground has the box (0, 0, 0, 0).                                    *)
C6_NoFiltering ==
    (Returned /\ Len(ArgInsts) = Len(ArgLabels)) =>
        /\ Len(OutRows) = Len(ArgInsts)
        /\ Len(Out.gt_boxes) = Len(ArgInsts)
        /\ Out.gt_classes = ArgLabels
        /\ \A i \in 1 .. Len(ArgInsts) :
              /\ Foreground(OutRows[i]) =
                    TransformedSet(transforms,
                        PayloadForeground(ArgInsts[i], heap[ret]["height"], heap[ret]["width"]))
              /\ Foreground(OutRows[i]) = {} => Out.gt_boxes[i] = <<0, 0, 0, 0>>

C6_Witness ==
    /\ Returned
    /\ Len(ArgInsts) = 2
    /\ Len(ArgLabels) = 2
    /\ Foreground(handed[1].px) = {}
    /\ Foreground(OutRows[2]) # {}
    /\ Out.gt_boxes[1] = <<0, 0, 0, 0>>

(* C7 (as claimed): a payload that decodes to a single h x w array never   *)
(* makes the merge fail, and its row is the transformed foreground.        *)
C7_BothShapesAccepted ==
    /\ err # "AxisError"
    /\ Returned =>
          \A i \in 1 .. Len(OutRows) :
              ArgInsts[i].kind = "rle" =>
                  Foreground(OutRows[i]) =
                      TransformedSet(transforms,
                          PayloadForeground(ArgInsts[i], heap[ret]["height"], heap[ret]["width"]))

(* C8: at every point of the call, failed or not, the caller's record and  *)
(* its lists are as they were, and a returned record shares no object with *)
(* them.                                                                   *)
C8_CallerUntouched ==
    /\ \A r \in DOMAIN orig : heap[r] = orig[r]
    /\ Returned => Reach(heap, ret) \cap Reach(orig, ArgRef) = {}

C8_Witness ==
    /\ Returned
    /\ "height" \notin DOMAIN orig[ArgRef]
    /\ "height" \in DOMAIN heap[ret]

(* C9 (as claimed): an output with zero mask rows comes only from a record *)
(* in which no instance decodes to a nonzero mask.                         *)
C9_EmptyOnlyIfAllZero ==
    (Returned /\ Len(OutRows) = 0) =>
        \A i \in 1 .. Len(ArgInsts) :
            PayloadForeground(ArgInsts[i], heap[ret]["height"], heap[ret]["width"]) = {}

(* C9 (amended): an output has zero mask rows exactly when the record's    *)
(* 'labels' list is empty; with at least one label every returned output   *)
(* has at least one row, all-zero masks included.                          *)
C9_EmptyIffNoLabels ==
    Returned => (Len(OutRows) = 0 <=> Len(ArgLabels) = 0)

C9_Witness ==
    /\ Returned
    /\ Len(OutRows) = 0
    /\ Out.gt_masks.h = image.h
    /\ Out.gt_masks.w = image.w
    /\ Len(ArgInsts) > 0

(* C10: the pipeline runs once and before any mask is transformed; every   *)
(* transformed mask is the image's transform applied to the array handed   *)
(* over, and has the height and width of the transformed image.            *)
C10_OneHandle ==
    /\ augRuns <= 1
    /\ Len(masks) > 0 => augRuns = 1
    /\ \A i \in 1 .. Len(masks) :
          /\ Foreground(masks[i].px) = TransformedSet(transforms, Foreground(handed[i].px))
          /\ masks[i].h = image.h
          /\ masks[i].w = image.w
    /\ Returned =>
          /\ heap[ret]["image"].shape = <<image.c, Out.gt_masks.h, Out.gt_masks.w>>
          /\ Out.image_size = <<Out.gt_masks.h, Out.gt_masks.w>>

C10_Witness ==
    /\ Returned
    /\ Len(masks) = 2
    /\ transforms.kind = "crop"
    /\ Foreground(masks[1].px) # {}
    /\ Foreground(masks[2].px) # {}
====
